---- MODULE Spec2Model ----
(***************************************************************************)
(* Constrained grid-labeling search (Milluzzi07/GraphTheory).              *)
(*                                                                         *)
(* FiniteTPGridLabeling.py: the budget sweep solve_finite_grid, the        *)
(* recursive search backtrack (one action per statement of its body, the   *)
(* call stack explicit) and the incremental predicate                      *)
(* is_locally_valid_finite.                                                *)
(* FiniteGridSAT.py: the independent verifier verify_finite_solution.      *)
(* Its constraint model, solve_finite_grid and the decreasing sweep of its *)
(* main block.                                                             *)
(* LadderSAT.py: get_var of solve_ladder_cylinder (cylinder topology).     *)
(***************************************************************************)
EXTENDS Integers, Sequences, FiniteSets

VARIABLES
    GRID_SIZE,        \* FiniteTPGridLabeling.py:3, module-level configuration
    MAX_COL_NUMBER,   \* FiniteTPGridLabeling.py:4, module-level configuration
    colNum,           \* loop variable of solve_finite_grid (0 before the loop)
    grid,             \* the flat array grid[0 .. TOTAL_CELLS-1], 0 = unassigned
    stack,            \* active backtrack calls, innermost last: [idx, max_col, val]
    pc,               \* position of the innermost call / of the driver
    ret,              \* value returned by the call that just returned
    outcome,          \* what solve_finite_grid printed: "none", "success", "unable"
    log,              \* history: the top-level backtrack calls and their results
    run,              \* repeated-invocation harness: number of the current run
    first,            \* repeated-invocation harness: result of run 1
    verdict,          \* verifier harness: "not_run", "pass", "fail"
    edits,            \* verifier harness: number of cells relabelled so far
    MAX_MAX_COL_NUMBER, \* FiniteGridSAT.py:6
    MIN_COL_NUMBER,   \* FiniteGridSAT.py:8
    loop_i,           \* FiniteGridSAT.py:195, the loop variable i
    solved,           \* FiniteGridSAT.py:194
    previous,         \* the budget the stop message of line 198 names (0: none)
    width,            \* LadderSAT.py:9, parameter of solve_ladder_cylinder
    call              \* get_var harness: the arguments and the result of a call

\* the state of FiniteGridSAT.py's main block and of LadderSAT.py's get_var
extVars == <<MAX_MAX_COL_NUMBER, MIN_COL_NUMBER, loop_i, solved, previous, width,
             call>>

vars == <<GRID_SIZE, MAX_COL_NUMBER, colNum, grid, stack, pc, ret, outcome,
          log, run, first, verdict, edits, extVars>>

\* get_var has not been called: no arguments of interest, no result
NotCalled == [r |-> 0, c |-> 0, result |-> "not_called", cell |-> <<0, 0>>]

\* the other programs have not started
ExtIdle ==
    /\ MAX_MAX_COL_NUMBER = 0
    /\ MIN_COL_NUMBER = 0
    /\ loop_i = 0
    /\ solved = TRUE
    /\ previous = 0
    /\ width = 1
    /\ call = NotCalled

(***************************************************************************)
(* Bounds of the model.  The program sets GRID_SIZE = MAX_COL_NUMBER = 100;*)
(* the model ranges over every smaller configuration.                      *)
(***************************************************************************)
MaxGridSize == 3
MaxBudget == 7
MaxEdits == 2
MaxSatGridSize == 2
MaxWidth == 4
MaxOffset == 5

(***************************************************************************)
(* Helpers shared by the two source files.                                 *)
(***************************************************************************)
Abs(x) == IF x < 0 THEN -x ELSE x

TOTAL_CELLS == GRID_SIZE * GRID_SIZE

Cells == 0 .. (TOTAL_CELLS - 1)

\* np.zeros(TOTAL_CELLS, dtype=int)
Zeros == [i \in Cells |-> 0]

\* divmod(idx, GRID_SIZE)
RowOf(idx) == idx \div GRID_SIZE
ColOf(idx) == idx % GRID_SIZE

(***************************************************************************)
(* is_locally_valid_finite(grid_1d, r, c, val)                             *)
(***************************************************************************)
\* 1. packing: the ring x + y = val of the quadrant up-left of (r, c)
PackingRingOK(grid_1d, r, c, val) ==
    \A x \in 0 .. val :
        LET y == val - x
            check_r == r - y
            check_c == c - x
        IN  (~(x = 0 /\ y = 0) /\ check_r >= 0 /\ check_c >= 0)
                => grid_1d[check_r * GRID_SIZE + check_c] # val

\* a left-edge check that forgets the left edge of the left neighbour
LeftEdgeOKNoLeft2(grid_1d, r, c, val) ==
    c > 0 =>
        LET left_val == grid_1d[r * GRID_SIZE + (c - 1)]
            diff_left == Abs(val - left_val)
        IN  /\ ~(diff_left = 0 \/ diff_left = val \/ diff_left = left_val)
            /\ r > 0 => diff_left # Abs(left_val - grid_1d[(r - 1) * GRID_SIZE + (c - 1)])

\* 2. left edge
LeftEdgeOK(grid_1d, r, c, val) ==
    c > 0 =>
        LET left_val == grid_1d[r * GRID_SIZE + (c - 1)]
            diff_left == Abs(val - left_val)
        IN  /\ ~(diff_left = 0 \/ diff_left = val \/ diff_left = left_val)
            /\ r > 0 => diff_left # Abs(left_val - grid_1d[(r - 1) * GRID_SIZE + (c - 1)])
            /\ c > 1 => diff_left # Abs(left_val - grid_1d[r * GRID_SIZE + (c - 2)])

\* a top-edge check that forgets the right edge of the top neighbour
TopEdgeOKNoRight(grid_1d, r, c, val) ==
    r > 0 =>
        LET top_val == grid_1d[(r - 1) * GRID_SIZE + c]
            diff_top == Abs(val - top_val)
        IN  /\ ~(diff_top = 0 \/ diff_top = val \/ diff_top = top_val)
            /\ r > 1 => diff_top # Abs(top_val - grid_1d[(r - 2) * GRID_SIZE + c])
            /\ c > 0 => diff_top # Abs(top_val - grid_1d[(r - 1) * GRID_SIZE + (c - 1)])

\* 3. top edge
TopEdgeOK(grid_1d, r, c, val) ==
    r > 0 =>
        LET top_val == grid_1d[(r - 1) * GRID_SIZE + c]
            diff_top == Abs(val - top_val)
        IN  /\ ~(diff_top = 0 \/ diff_top = val \/ diff_top = top_val)
            /\ r > 1 => diff_top # Abs(top_val - grid_1d[(r - 2) * GRID_SIZE + c])
            /\ c > 0 => diff_top # Abs(top_val - grid_1d[(r - 1) * GRID_SIZE + (c - 1)])
            /\ c < GRID_SIZE - 1
                   => diff_top # Abs(top_val - grid_1d[(r - 1) * GRID_SIZE + (c + 1)])

\* 4. the two new edges of the current vertex
CurrentVertexOK(grid_1d, r, c, val) ==
    (c > 0 /\ r > 0) =>
        Abs(val - grid_1d[r * GRID_SIZE + (c - 1)])
            # Abs(val - grid_1d[(r - 1) * GRID_SIZE + c])

is_locally_valid_finite(grid_1d, r, c, val) ==
    /\ PackingRingOK(grid_1d, r, c, val)
    /\ LeftEdgeOK(grid_1d, r, c, val)
    /\ TopEdgeOK(grid_1d, r, c, val)
    /\ CurrentVertexOK(grid_1d, r, c, val)

(***************************************************************************)
(* verify_finite_solution(grid, N) of FiniteGridSAT.py, on a list of rows. *)
(***************************************************************************)
\* grid.reshape((GRID_SIZE, GRID_SIZE)): row r, column c is flat cell r*N + c
Reshape(g, N) == [r \in 0 .. (N - 1) |-> [c \in 0 .. (N - 1) |-> g[r * N + c]]]

InGrid(nr, nc, N) == 0 <= nr /\ nr < N /\ 0 <= nc /\ nc < N

\* 1. finite packing test of one cell: the full diamond
VerifyPacking(g2, N, r, c) ==
    LET val == g2[r][c]
    IN  \A dy \in (-val) .. val : \A dx \in (-val) .. val :
            (~(dy = 0 /\ dx = 0) /\ Abs(dy) + Abs(dx) <= val /\ InGrid(r + dy, c + dx, N))
                => g2[r + dy][c + dx] # val

\* the offsets in the order the verifier visits them
NeighborOffsets == << <<-1, 0>>, <<1, 0>>, <<0, -1>>, <<0, 1>> >>

\* 2. incident_edges of one cell, in visiting order
IncidentEdges(g2, N, r, c) ==
    LET F[k \in 0 .. 4] ==
            IF k = 0 THEN << >>
            ELSE LET nr == r + NeighborOffsets[k][1]
                     nc == c + NeighborOffsets[k][2]
                 IN  IF InGrid(nr, nc, N)
                     THEN Append(F[k - 1], Abs(g2[r][c] - g2[nr][nc]))
                     ELSE F[k - 1]
    IN  F[4]

\* the vertex rules of one cell
VerifyVertexRules(g2, N, r, c) ==
    \A k \in 1 .. 4 :
        LET nr == r + NeighborOffsets[k][1]
            nc == c + NeighborOffsets[k][2]
        IN  InGrid(nr, nc, N) =>
                LET val == g2[r][c]
                    n_val == g2[nr][nc]
                    diff == Abs(val - n_val)
                IN  diff # 0 /\ diff # val /\ diff # n_val

\* a uniqueness test that compares only the first two incident edges
VerifyEdgeUniquenessFirstTwo(g2, N, r, c) ==
    LET incident_edges == IncidentEdges(g2, N, r, c)
    IN  Len(incident_edges) >= 2 => incident_edges[1] # incident_edges[2]

\* 3. len(set(incident_edges)) == len(incident_edges)
VerifyEdgeUniqueness(g2, N, r, c) ==
    LET incident_edges == IncidentEdges(g2, N, r, c)
    IN  Cardinality({incident_edges[k] : k \in 1 .. Len(incident_edges)})
            = Len(incident_edges)

verify_finite_solution(g2, N) ==
    \A r \in 0 .. (N - 1) : \A c \in 0 .. (N - 1) :
        /\ VerifyPacking(g2, N, r, c)
        /\ VerifyVertexRules(g2, N, r, c)
        /\ VerifyEdgeUniqueness(g2, N, r, c)

(***************************************************************************)
(* backtrack(grid, idx, max_col), one action per statement.                *)
(*   pc = "call"      at line 21, the innermost call just entered          *)
(*   pc = "loop"      at line 26, the head of the value loop               *)
(*   pc = "test"      at line 30, the candidate written, not yet tested    *)
(*   pc = "reset"     at line 34                                           *)
(*   pc = "returned"  a call returned ret to its caller                    *)
(***************************************************************************)
Top == stack[Len(stack)]

Pop(s) == SubSeq(s, 1, Len(s) - 1)

Frame(idx, max_col) == [idx |-> idx, max_col |-> max_col, val |-> 0]

SetVal(s, v) == [s EXCEPT ![Len(s)].val = v]

\* a loop that stops one value short of max_col
NextCandidatesShort(val, max_col) == IF val < max_col - 1 THEN {val + 1} ELSE {}

\* a loop that takes the remaining values in no fixed order
NextCandidatesAnyOrder(val, max_col) == (val + 1) .. max_col

\* a loop that starts over at 1 after max_col
NextCandidatesWrap(val, max_col) == IF val < max_col THEN {val + 1} ELSE {1}

\* range(1, max_col + 1): the values the loop takes after val, in order
NextCandidates(val, max_col) == IF val < max_col THEN {val + 1} ELSE {}

\* a reset that leaves the candidate in the cell
ResetCellSkipped(g, idx) == g

\* grid[idx] = 0
ResetCell(g, idx) == [g EXCEPT ![idx] = 0]

\* lines 21-24
Enter ==
    /\ pc = "call"
    /\ IF Top.idx = TOTAL_CELLS
       THEN /\ stack' = Pop(stack)
            /\ ret' = TRUE
            /\ pc' = "returned"
       ELSE /\ pc' = "loop"
            /\ UNCHANGED <<stack, ret>>
    /\ UNCHANGED <<GRID_SIZE, MAX_COL_NUMBER, colNum, grid, outcome, log, run,
                   first, verdict, edits>>
    /\ UNCHANGED extVars

\* lines 26-27
LoopNext ==
    /\ pc = "loop"
    /\ \E val \in NextCandidates(Top.val, Top.max_col) :
        /\ stack' = SetVal(stack, val)
        /\ grid' = [grid EXCEPT ![Top.idx] = val]
    /\ pc' = "test"
    /\ UNCHANGED <<GRID_SIZE, MAX_COL_NUMBER, colNum, ret, outcome, log, run,
                   first, verdict, edits>>
    /\ UNCHANGED extVars

\* line 36
LoopExit ==
    /\ pc = "loop"
    /\ NextCandidates(Top.val, Top.max_col) = {}
    /\ stack' = Pop(stack)
    /\ ret' = FALSE
    /\ pc' = "returned"
    /\ UNCHANGED <<GRID_SIZE, MAX_COL_NUMBER, colNum, grid, outcome, log, run,
                   first, verdict, edits>>
    /\ UNCHANGED extVars

\* lines 30-31
Test ==
    /\ pc = "test"
    /\ IF is_locally_valid_finite(grid, RowOf(Top.idx), ColOf(Top.idx), Top.val)
       THEN /\ stack' = Append(stack, Frame(Top.idx + 1, Top.max_col))
            /\ pc' = "call"
       ELSE /\ pc' = "reset"
            /\ UNCHANGED stack
    /\ UNCHANGED <<GRID_SIZE, MAX_COL_NUMBER, colNum, grid, ret, outcome, log,
                   run, first, verdict, edits>>
    /\ UNCHANGED extVars

\* lines 31-32: the recursive call returned to the call that made it
ReturnToCaller ==
    /\ pc = "returned"
    /\ stack # << >>
    /\ IF ret
       THEN /\ stack' = Pop(stack)
            /\ pc' = "returned"
       ELSE /\ pc' = "reset"
            /\ UNCHANGED stack
    /\ UNCHANGED <<GRID_SIZE, MAX_COL_NUMBER, colNum, grid, ret, outcome, log,
                   run, first, verdict, edits>>
    /\ UNCHANGED extVars

\* line 34
Reset ==
    /\ pc = "reset"
    /\ grid' = ResetCell(grid, Top.idx)
    /\ pc' = "loop"
    /\ UNCHANGED <<GRID_SIZE, MAX_COL_NUMBER, colNum, stack, ret, outcome, log,
                   run, first, verdict, edits>>
    /\ UNCHANGED extVars

(***************************************************************************)
(* solve_finite_grid() of FiniteTPGridLabeling.py.                         *)
(***************************************************************************)
\* lines 8-13: the next budget, a fresh grid, the top-level call
SweepNext ==
    /\ pc = "sweep"
    /\ colNum < MAX_COL_NUMBER
    /\ colNum' = colNum + 1
    /\ grid' = Zeros
    /\ stack' = << Frame(0, colNum + 1) >>
    /\ log' = Append(log, [budget |-> colNum + 1, result |-> "running"])
    /\ pc' = "call"
    /\ UNCHANGED <<GRID_SIZE, MAX_COL_NUMBER, ret, outcome, run, first, verdict,
                   edits>>
    /\ UNCHANGED extVars

\* lines 13-16: the top-level call returned
SweepReturn ==
    /\ pc = "returned"
    /\ stack = << >>
    /\ log' = [log EXCEPT ![Len(log)].result = IF ret THEN "success" ELSE "failure"]
    /\ IF ret
       THEN /\ outcome' = "success"
            /\ pc' = "done"
       ELSE /\ pc' = "sweep"
            /\ UNCHANGED outcome
    /\ UNCHANGED <<GRID_SIZE, MAX_COL_NUMBER, colNum, grid, stack, ret, run,
                   first, verdict, edits>>
    /\ UNCHANGED extVars

\* line 18: the range is exhausted
SweepExhausted ==
    /\ pc = "sweep"
    /\ colNum >= MAX_COL_NUMBER
    /\ outcome' = "unable"
    /\ pc' = "done"
    /\ UNCHANGED <<GRID_SIZE, MAX_COL_NUMBER, colNum, grid, stack, ret, log, run,
                   first, verdict, edits>>
    /\ UNCHANGED extVars

Init ==
    /\ GRID_SIZE \in 1 .. MaxGridSize
    /\ MAX_COL_NUMBER \in 1 .. MaxBudget
    /\ colNum = 0
    /\ grid = Zeros
    /\ stack = << >>
    /\ pc = "sweep"
    /\ ret = FALSE
    /\ outcome = "none"
    /\ log = << >>
    /\ run = 1
    /\ first = [result |-> FALSE, labeling |-> << >>]
    /\ verdict = "not_run"
    /\ edits = 0
    /\ ExtIdle

Next ==
    \/ SweepNext
    \/ SweepReturn
    \/ SweepExhausted
    \/ Enter
    \/ LoopNext
    \/ LoopExit
    \/ Test
    \/ ReturnToCaller
    \/ Reset

Spec == Init /\ [][Next]_vars

(***************************************************************************)
(* The same program with the configuration of lines 3-4 drawn from a range *)
(* that includes 0.  Nothing between line 3 and the loop of line 8 reads   *)
(* GRID_SIZE or MAX_COL_NUMBER other than to compute TOTAL_CELLS, so the   *)
(* program starts solve_finite_grid in the same way.                       *)
(***************************************************************************)
InitConfig ==
    /\ GRID_SIZE \in 0 .. MaxGridSize
    /\ MAX_COL_NUMBER \in 0 .. MaxBudget
    /\ colNum = 0
    /\ grid = Zeros
    /\ stack = << >>
    /\ pc = "sweep"
    /\ ret = FALSE
    /\ outcome = "none"
    /\ log = << >>
    /\ run = 1
    /\ first = [result |-> FALSE, labeling |-> << >>]
    /\ verdict = "not_run"
    /\ edits = 0
    /\ ExtIdle

SpecConfig == InitConfig /\ [][Next]_vars

(***************************************************************************)
(* Repeated invocation: backtrack(grid, 0, colNum) is called on a fresh    *)
(* grid, and when it has returned it is called once more on another fresh  *)
(* grid with the same GRID_SIZE and the same budget.                       *)
(***************************************************************************)
InitRepeat ==
    /\ GRID_SIZE \in 1 .. MaxGridSize
    /\ MAX_COL_NUMBER \in 1 .. MaxBudget
    /\ colNum = MAX_COL_NUMBER
    /\ grid = Zeros
    /\ stack = << Frame(0, colNum) >>
    /\ pc = "call"
    /\ ret = FALSE
    /\ outcome = "none"
    /\ log = << >>
    /\ run = 1
    /\ first = [result |-> FALSE, labeling |-> << >>]
    /\ verdict = "not_run"
    /\ edits = 0
    /\ ExtIdle

\* run 1 returned: keep its result, call again on np.zeros(TOTAL_CELLS)
RepeatAgain ==
    /\ pc = "returned"
    /\ stack = << >>
    /\ run = 1
    /\ first' = [result |-> ret, labeling |-> grid]
    /\ run' = 2
    /\ grid' = Zeros
    /\ stack' = << Frame(0, colNum) >>
    /\ pc' = "call"
    /\ UNCHANGED <<GRID_SIZE, MAX_COL_NUMBER, colNum, ret, outcome, log, verdict,
                   edits>>
    /\ UNCHANGED extVars

\* run 2 returned
RepeatDone ==
    /\ pc = "returned"
    /\ stack = << >>
    /\ run = 2
    /\ pc' = "done"
    /\ UNCHANGED <<GRID_SIZE, MAX_COL_NUMBER, colNum, grid, stack, ret, outcome,
                   log, run, first, verdict, edits>>
    /\ UNCHANGED extVars

NextRepeat ==
    \/ RepeatAgain
    \/ RepeatDone
    \/ Enter
    \/ LoopNext
    \/ LoopExit
    \/ Test
    \/ ReturnToCaller
    \/ Reset

SpecRepeat == InitRepeat /\ [][NextRepeat]_vars

\* the interpreter runs one thread and always executes its next statement
SpecRepeatFair == SpecRepeat /\ WF_vars(NextRepeat)

(***************************************************************************)
(* Every grid the predicate lets through: the cells are placed in          *)
(* row-major order (lines 24-30 of backtrack), each with any value of      *)
(* 1..max_col that is_locally_valid_finite accepts against the cells       *)
(* placed before it.  The single frame of the stack holds the next idx.    *)
(***************************************************************************)
InitPlace ==
    /\ GRID_SIZE \in 1 .. MaxGridSize
    /\ MAX_COL_NUMBER \in 1 .. MaxBudget
    /\ colNum = MAX_COL_NUMBER
    /\ grid = Zeros
    /\ stack = << Frame(0, colNum) >>
    /\ pc = "place"
    /\ ret = FALSE
    /\ outcome = "none"
    /\ log = << >>
    /\ run = 1
    /\ first = [result |-> FALSE, labeling |-> << >>]
    /\ verdict = "not_run"
    /\ edits = 0
    /\ ExtIdle

\* the grid with the candidate written, as is_locally_valid_finite reads it
WithCandidate(g, idx, val) == [g EXCEPT ![idx] = val]

\* lines 27 and 30 for cell idx and candidate val
Accepts(g, idx, val) ==
    is_locally_valid_finite(WithCandidate(g, idx, val), RowOf(idx), ColOf(idx), val)

Place ==
    /\ pc = "place"
    /\ Top.idx < TOTAL_CELLS
    /\ \E val \in 1 .. Top.max_col :
        /\ Accepts(grid, Top.idx, val)
        /\ grid' = WithCandidate(grid, Top.idx, val)
    /\ stack' = << Frame(Top.idx + 1, Top.max_col) >>
    /\ UNCHANGED <<GRID_SIZE, MAX_COL_NUMBER, colNum, pc, ret, outcome, log, run,
                   first, verdict, edits>>
    /\ UNCHANGED extVars

NextPlace == Place

SpecPlace == InitPlace /\ [][NextPlace]_vars

(***************************************************************************)
(* The verifier applied to fully assigned grids: a grid is the top-left    *)
(* GRID_SIZE x GRID_SIZE block of a labeling that satisfies every rule,    *)
(* with up to MaxEdits cells relabelled to any value of 1..MAX_COL_NUMBER; *)
(* verify_finite_solution is then called on it as at FiniteGridSAT.py:129. *)
(***************************************************************************)
BaseLabeling ==
    << << 1,  4,  3,  8>>,
       << 5,  6,  1,  9>>,
       << 3,  2,  7, 11>>,
       <<13, 12, 10,  1>> >>

SeedGrid == [i \in Cells |-> BaseLabeling[RowOf(i) + 1][ColOf(i) + 1]]

InitVerify ==
    /\ GRID_SIZE \in 1 .. MaxGridSize
    /\ MAX_COL_NUMBER = MaxBudget
    /\ colNum = MAX_COL_NUMBER
    /\ grid = SeedGrid
    /\ stack = << >>
    /\ pc = "edit"
    /\ ret = FALSE
    /\ outcome = "none"
    /\ log = << >>
    /\ run = 1
    /\ first = [result |-> FALSE, labeling |-> << >>]
    /\ verdict = "not_run"
    /\ edits = 0
    /\ ExtIdle

Relabel ==
    /\ pc = "edit"
    /\ edits < MaxEdits
    /\ \E i \in Cells : \E v \in 1 .. MAX_COL_NUMBER :
        grid' = [grid EXCEPT ![i] = v]
    /\ edits' = edits + 1
    /\ UNCHANGED <<GRID_SIZE, MAX_COL_NUMBER, colNum, stack, pc, ret, outcome,
                   log, run, first, verdict>>
    /\ UNCHANGED extVars

\* verify_finite_solution(final_grid, N)
RunVerifier ==
    /\ pc = "edit"
    /\ verdict' = IF verify_finite_solution(Reshape(grid, GRID_SIZE), GRID_SIZE)
                  THEN "pass" ELSE "fail"
    /\ pc' = "done"
    /\ UNCHANGED <<GRID_SIZE, MAX_COL_NUMBER, colNum, grid, stack, ret, outcome,
                   log, run, first, edits>>
    /\ UNCHANGED extVars

NextVerify == Relabel \/ RunVerifier

SpecVerify == InitVerify /\ [][NextVerify]_vars

(***************************************************************************)
(* FiniteGridSAT.py: the constraint model that solve_finite_grid builds    *)
(* (lines 15-104), as a predicate on a list of rows g2 with entries of     *)
(* 1..MAX_COL_NUMBER.                                                      *)
(***************************************************************************)
\* A. packing constraints: z at (r, c) forbids z in the diamond of radius z
CPPacking(g2, N, max_col_number) ==
    \A z \in 1 .. max_col_number : \A r \in 0 .. (N - 1) : \A c \in 0 .. (N - 1) :
        g2[r][c] = z =>
            \A dy \in (-z) .. z : \A dx \in (-z) .. z :
                (~(dy = 0 /\ dx = 0) /\ Abs(dy) + Abs(dx) <= z /\ InGrid(r + dy, c + dx, N))
                    => g2[r + dy][c + dx] # z

\* B. special rule for 1s: no other 1 within distance 2
CPSpecialOnes(g2, N) ==
    \A r \in 0 .. (N - 1) : \A c \in 0 .. (N - 1) :
        g2[r][c] = 1 =>
            \A dy \in (-2) .. 2 : \A dx \in (-2) .. 2 :
                (~(dy = 0 /\ dx = 0) /\ Abs(dy) + Abs(dx) <= 2 /\ InGrid(r + dy, c + dx, N))
                    => g2[r + dy][c + dx] # 1

\* valid_neighbors of (r, c), in the order of neighbor_offsets
ValidNeighbors(g2, N, r, c) ==
    LET F[k \in 0 .. 4] ==
            IF k = 0 THEN << >>
            ELSE LET nr == r + NeighborOffsets[k][1]
                     nc == c + NeighborOffsets[k][2]
                 IN  IF InGrid(nr, nc, N) THEN Append(F[k - 1], g2[nr][nc]) ELSE F[k - 1]
    IN  F[4]

\* C. vertex adjacency rules: no doubling, inequality, arithmetic progression
CPAdjacency(g2, N) ==
    \A r \in 0 .. (N - 1) : \A c \in 0 .. (N - 1) :
        LET current == g2[r][c]
            valid_neighbors == ValidNeighbors(g2, N, r, c)
        IN  /\ \A a \in 1 .. Len(valid_neighbors) :
                /\ valid_neighbors[a] # 2 * current
                /\ current # 2 * valid_neighbors[a]
                /\ current # valid_neighbors[a]
            /\ \A a \in 1 .. Len(valid_neighbors) :
                \A b \in (a + 1) .. Len(valid_neighbors) :
                    2 * current # valid_neighbors[a] + valid_neighbors[b]

CPModelSatisfied(g2, N, max_col_number) ==
    /\ CPPacking(g2, N, max_col_number)
    /\ CPSpecialOnes(g2, N)
    /\ CPAdjacency(g2, N)

\* the assignments solver.Solve may return with status OPTIMAL or FEASIBLE
CPSolutions(N, max_col_number) ==
    {g \in [0 .. (N * N - 1) -> 1 .. max_col_number] :
        CPModelSatisfied(Reshape(g, N), N, max_col_number)}

(***************************************************************************)
(* FiniteGridSAT.py: the main block (lines 194-200) and solve_finite_grid. *)
(*   pc = "sat_loop"    at line 195, the head of the loop                  *)
(*   pc = "sat_solve"   at line 117, solver.Solve(model)                   *)
(*   pc = "sat_verify"  at line 129, the solution read into final_grid     *)
(*   pc = "sat_return"  solve_finite_grid returned ret to line 197         *)
(* The solver is external: it may return any assignment that satisfies     *)
(* the model, or give up within MAX_TIME (or prove infeasibility), in      *)
(* which case status is neither OPTIMAL nor FEASIBLE.                      *)
(***************************************************************************)
InitSAT ==
    /\ GRID_SIZE \in 1 .. MaxSatGridSize
    /\ MAX_MAX_COL_NUMBER \in 1 .. MaxBudget
    /\ MIN_COL_NUMBER \in 0 .. MaxBudget
    /\ loop_i = MAX_MAX_COL_NUMBER + 1
    /\ solved = TRUE
    /\ previous = 0
    /\ MAX_COL_NUMBER = 0
    /\ colNum = 0
    /\ grid = Zeros
    /\ stack = << >>
    /\ pc = "sat_loop"
    /\ ret = FALSE
    /\ outcome = "none"
    /\ log = << >>
    /\ run = 1
    /\ first = [result |-> FALSE, labeling |-> << >>]
    /\ verdict = "not_run"
    /\ edits = 0
    /\ width = 1
    /\ call = NotCalled

\* range(MAX_MAX_COL_NUMBER, MIN_COL_NUMBER, -1): whether value v is in the range
InSweepRange(v) == v > MIN_COL_NUMBER

\* lines 195-197 and 11-20: the next i, solve_finite_grid(i) called; the
\* final_grid and the verifier's answer of the call before are gone
SatLoopNext ==
    /\ pc = "sat_loop"
    /\ InSweepRange(loop_i - 1)
    /\ loop_i' = loop_i - 1
    /\ MAX_COL_NUMBER' = loop_i - 1
    /\ grid' = Zeros
    /\ verdict' = "not_run"
    /\ log' = Append(log, [budget |-> loop_i - 1, result |-> "running"])
    /\ pc' = "sat_solve"
    /\ UNCHANGED <<GRID_SIZE, colNum, stack, ret, outcome, run, first, edits,
                   MAX_MAX_COL_NUMBER, MIN_COL_NUMBER, solved, previous, width,
                   call>>

\* line 195: the range is exhausted
SatLoopEnd ==
    /\ pc = "sat_loop"
    /\ ~InSweepRange(loop_i - 1)
    /\ pc' = "done"
    /\ UNCHANGED <<GRID_SIZE, MAX_COL_NUMBER, colNum, grid, stack, ret, outcome,
                   log, run, first, verdict, edits, extVars>>

\* lines 117-127: status OPTIMAL or FEASIBLE, final_grid read from the solver
SatSolveFeasible ==
    /\ pc = "sat_solve"
    /\ \E g \in CPSolutions(GRID_SIZE, MAX_COL_NUMBER) : grid' = g
    /\ pc' = "sat_verify"
    /\ UNCHANGED <<GRID_SIZE, MAX_COL_NUMBER, colNum, stack, ret, outcome, log,
                   run, first, verdict, edits, extVars>>

\* lines 117-120 and 131-133: any other status, return False
SatSolveFailure ==
    /\ pc = "sat_solve"
    /\ ret' = FALSE
    /\ log' = [log EXCEPT ![Len(log)].result = "failure"]
    /\ pc' = "sat_return"
    /\ UNCHANGED <<GRID_SIZE, MAX_COL_NUMBER, colNum, grid, stack, outcome, run,
                   first, verdict, edits, extVars>>

\* lines 129-130: the verifier is called, its result dropped, return True
SatVerify ==
    /\ pc = "sat_verify"
    /\ verdict' = IF verify_finite_solution(Reshape(grid, GRID_SIZE), GRID_SIZE)
                  THEN "pass" ELSE "fail"
    /\ ret' = TRUE
    /\ log' = [log EXCEPT ![Len(log)].result = "success"]
    /\ pc' = "sat_return"
    /\ UNCHANGED <<GRID_SIZE, MAX_COL_NUMBER, colNum, grid, stack, outcome, run,
                   first, edits, extVars>>

\* lines 197-200: on False the message names i + 1, solved = False, break
SatReturn ==
    /\ pc = "sat_return"
    /\ IF ret
       THEN /\ pc' = "sat_loop"
            /\ UNCHANGED <<solved, previous>>
       ELSE /\ previous' = loop_i + 1
            /\ solved' = FALSE
            /\ pc' = "done"
    /\ UNCHANGED <<GRID_SIZE, MAX_COL_NUMBER, colNum, grid, stack, ret, outcome,
                   log, run, first, verdict, edits, MAX_MAX_COL_NUMBER,
                   MIN_COL_NUMBER, loop_i, width, call>>

NextSAT ==
    \/ SatLoopNext
    \/ SatLoopEnd
    \/ SatSolveFeasible
    \/ SatSolveFailure
    \/ SatVerify
    \/ SatReturn

SpecSAT == InitSAT /\ [][NextSAT]_vars

(***************************************************************************)
(* LadderSAT.py: get_var of solve_ladder_cylinder(width, max_color).       *)
(* grid is the dict built at lines 17-20, with one key (r, c) for every    *)
(* r in range(HEIGHT) and c in range(width); get_var is called at lines 50 *)
(* and 60 as get_var(r + dy, c + dx) from a cell (r, c) of the grid.       *)
(***************************************************************************)
HEIGHT == 2

\* the keys of the dict grid
GridKeys == {<<r, c>> : r \in 0 .. (HEIGHT - 1), c \in 0 .. (width - 1)}

\* a remainder that takes the sign of the dividend
TruncMod(a, n) == IF a >= 0 THEN a % n ELSE -((-a) % n)

\* Python's a % n for n > 0: the remainder of the floor division
PyMod(a, n) == a - n * (a \div n)

\* lines 23-26: the result of get_var(r, c)
get_var(r, c) ==
    IF 0 <= r /\ r < HEIGHT
    THEN LET key == <<r, PyMod(c, width)>>
         IN  IF key \in GridKeys
             THEN [result |-> "cell", cell |-> key]
             ELSE [result |-> "KeyError", cell |-> <<0, 0>>]
    ELSE [result |-> "None", cell |-> <<0, 0>>]

InitCylinder ==
    /\ width \in 1 .. MaxWidth
    /\ \E r \in 0 .. (HEIGHT - 1) : \E c \in 0 .. (width - 1) :
       \E dy \in (-MaxOffset) .. MaxOffset : \E dx \in (-MaxOffset) .. MaxOffset :
            call = [r |-> r + dy, c |-> c + dx, result |-> "not_called",
                    cell |-> <<0, 0>>]
    /\ GRID_SIZE = 1
    /\ MAX_COL_NUMBER = 0
    /\ colNum = 0
    /\ grid = Zeros
    /\ stack = << >>
    /\ pc = "get_var"
    /\ ret = FALSE
    /\ outcome = "none"
    /\ log = << >>
    /\ run = 1
    /\ first = [result |-> FALSE, labeling |-> << >>]
    /\ verdict = "not_run"
    /\ edits = 0
    /\ MAX_MAX_COL_NUMBER = 0
    /\ MIN_COL_NUMBER = 0
    /\ loop_i = 0
    /\ solved = TRUE
    /\ previous = 0

\* get_var(call.r, call.c) runs
GetVar ==
    /\ pc = "get_var"
    /\ call' = [r |-> call.r, c |-> call.c,
                result |-> get_var(call.r, call.c).result,
                cell |-> get_var(call.r, call.c).cell]
    /\ pc' = "done"
    /\ UNCHANGED <<GRID_SIZE, MAX_COL_NUMBER, colNum, grid, stack, ret, outcome,
                   log, run, first, verdict, edits, MAX_MAX_COL_NUMBER,
                   MIN_COL_NUMBER, loop_i, solved, previous, width>>

NextCylinder == GetVar

SpecCylinder == InitCylinder /\ [][NextCylinder]_vars

(***************************************************************************)
(* Reference semantics used by the properties: a labeling of the whole     *)
(* grid with values in 1..k that the verifier passes.  A labeling passes   *)
(* only if no two of its cells conflict pairwise, so the enumeration       *)
(* abandons a prefix as soon as its last cell conflicts with an earlier    *)
(* one; the complete labelings are decided by the verifier itself.         *)
(***************************************************************************)
Manhattan(i, j) == Abs(RowOf(i) - RowOf(j)) + Abs(ColOf(i) - ColOf(j))

PairConflict(g, i, j) ==
    \/ g[i] = g[j] /\ Manhattan(i, j) <= g[i]
    \/ Manhattan(i, j) = 1 /\ Abs(g[i] - g[j]) \in {0, g[i], g[j]}

RECURSIVE NoValidCompletion(_, _, _)
NoValidCompletion(g, idx, k) ==
    IF idx = TOTAL_CELLS
    THEN ~verify_finite_solution(Reshape(g, GRID_SIZE), GRID_SIZE)
    ELSE \A v \in 1 .. k :
            LET h == [g EXCEPT ![idx] = v]
            IN  \/ \E j \in 0 .. (idx - 1) : PairConflict(h, idx, j)
                \/ NoValidCompletion(h, idx + 1, k)

Feasible(k) == ~NoValidCompletion(Zeros, 0, k)

\* the top-level call backtrack(grid, 0, colNum) has just returned ret
TopReturned == pc = "returned" /\ stack = << >>

GridPassesVerifier == verify_finite_solution(Reshape(grid, GRID_SIZE), GRID_SIZE)

(***************************************************************************)
(* C1 (soundness): whenever backtrack(grid, 0, k) returns True, the grid   *)
(* it leaves passes verify_finite_solution.                                *)
(***************************************************************************)
C1_Soundness == (TopReturned /\ ret) => GridPassesVerifier

(***************************************************************************)
(* C2 (failure proves infeasibility): whenever backtrack(grid, 0, k)       *)
(* returns False, no complete labeling with values in 1..k passes the      *)
(* verifier.                                                               *)
(***************************************************************************)
C2_FailureProvesInfeasible == (TopReturned /\ ~ret) => ~Feasible(colNum)

C2_Witness == TopReturned /\ ~ret /\ GRID_SIZE >= 2 /\ colNum >= 4

(***************************************************************************)
(* C3 (minimization sweep): the budgets attempted are 1, 2, ... in         *)
(* increasing order up to MAX_COL_NUMBER, no budget is attempted after the *)
(* first success, and the budget reported is the minimal feasible one:     *)
(* it admits a valid labeling and no smaller budget does.                  *)
(***************************************************************************)
C3_MinimizationSweep ==
    /\ \A i \in 1 .. Len(log) : log[i].budget = i
    /\ \A i \in 1 .. (Len(log) - 1) : log[i].result = "failure"
    /\ outcome = "unable" =>
          /\ Len(log) = MAX_COL_NUMBER
          /\ \A i \in 1 .. Len(log) : log[i].result = "failure"
    /\ outcome = "success" =>
          /\ log[Len(log)] = [budget |-> colNum, result |-> "success"]
          /\ Feasible(colNum)
          /\ \A k \in 1 .. (colNum - 1) : ~Feasible(k)

(***************************************************************************)
(* C5 (verifier gate): an attempt reports success to the sweep only if     *)
(* the verifier was run on the grid found and passed it.                   *)
(***************************************************************************)
C5_SuccessOnlyIfVerified ==
    outcome = "success" => (verdict = "pass" /\ GridPassesVerifier)

(***************************************************************************)
(* C6 (frontier invariant), as stated: while a backtrack call is active a  *)
(* cell is non-zero iff its index is below the idx of the innermost call.  *)
(***************************************************************************)
C6_FrontierInvariant ==
    stack # << >> => \A i \in Cells : (grid[i] # 0) <=> (i < Top.idx)

(***************************************************************************)
(* C6, amended: until a call has returned True, the cells below the idx of *)
(* the innermost call are non-zero and the cells above it are zero; cell   *)
(* idx itself is non-zero exactly while its candidate is under test, from  *)
(* the write of line 27 to the reset of line 34.  Once a call has returned *)
(* True every cell is non-zero.                                            *)
(***************************************************************************)
CandidateUnderTest == pc \in {"test", "reset"} \/ (pc = "returned" /\ ~ret)

C6_FrontierInvariantAmended ==
    stack # << >> =>
        IF pc = "returned" /\ ret
        THEN \A i \in Cells : grid[i] # 0
        ELSE \A i \in Cells :
                (grid[i] # 0) <=> (i < Top.idx \/ (i = Top.idx /\ CandidateUnderTest))

C6_Witness == stack # << >> /\ pc = "test" /\ Top.idx >= 1 /\ grid[Top.idx] # 0

(***************************************************************************)
(* C7 (stack discipline): no step takes a cell from one label directly to  *)
(* another; a cell that holds a label is rewritten only after a reset to 0.*)
(***************************************************************************)
C7_StackDiscipline ==
    [][\A i \in Cells : (grid[i] # 0 /\ grid'[i] # 0) => grid'[i] = grid[i]]_vars

\* a cell that was written, reset and written again
C7_Witness == stack # << >> /\ pc = "test" /\ Top.val >= 2 /\ grid[Top.idx] = Top.val

(***************************************************************************)
(* C4 (determinism): two runs of backtrack with the same GRID_SIZE and the *)
(* same budget, each from an all-zero grid, return the same outcome and,   *)
(* on success, leave the same labeling cell for cell.                      *)
(***************************************************************************)
C4_Determinism ==
    (pc = "done" /\ run = 2) =>
        /\ ret = first.result
        /\ ret => grid = first.labeling

C4_Witness == pc = "done" /\ run = 2 /\ ret /\ first.result /\ GRID_SIZE >= 2

(***************************************************************************)
(* Rules 2-7 of the rule family, stated over cells and their neighbours.   *)
(***************************************************************************)
Neighbours(p) == {q \in Cells : Manhattan(p, q) = 1}

\* rule 2: adjacent cells differ
AdjacentInequality(g) == \A p \in Cells : \A q \in Neighbours(p) : g[p] # g[q]

\* rule 3: no cell is the double of an adjacent cell
NoDoubling(g) ==
    \A p \in Cells : \A q \in Neighbours(p) : g[q] # 2 * g[p] /\ g[p] # 2 * g[q]

\* rule 4: no cell is the mean of two of its neighbours
NoArithmeticProgression(g) ==
    \A p \in Cells : \A n1 \in Neighbours(p) : \A n2 \in Neighbours(p) \ {n1} :
        2 * g[p] # g[n1] + g[n2]

\* rules 5-6: the weight of an edge is none of 0 and its two endpoints
VertexEdgeCompatibility(g) ==
    \A p \in Cells : \A q \in Neighbours(p) : Abs(g[p] - g[q]) \notin {0, g[p], g[q]}

\* rule 7: the edges incident to one cell have pairwise distinct weights
IncidentEdgeUniqueness(g) ==
    \A p \in Cells : \A n1 \in Neighbours(p) : \A n2 \in Neighbours(p) \ {n1} :
        Abs(g[p] - g[n1]) # Abs(g[p] - g[n2])

Rules2to7(g) ==
    /\ AdjacentInequality(g)
    /\ NoDoubling(g)
    /\ NoArithmeticProgression(g)
    /\ VertexEdgeCompatibility(g)
    /\ IncidentEdgeUniqueness(g)

\* rule 1: no two cells holding v lie within Manhattan distance v
FullPacking(g) ==
    \A p \in Cells : \A q \in Cells \ {p} : g[p] = g[q] => Manhattan(p, q) > g[p]

(***************************************************************************)
(* C8 (incremental coverage of rules 2-7): a complete grid every cell of   *)
(* which was accepted by is_locally_valid_finite, in row-major order,      *)
(* against the cells before it satisfies rules 2-7 at every cell.          *)
(***************************************************************************)
PlacedAll == pc = "place" /\ Top.idx = TOTAL_CELLS

C8_IncrementalCoverage == PlacedAll => Rules2to7(grid)

C8_Witness == PlacedAll /\ GRID_SIZE = 3

(***************************************************************************)
(* C9 (incremental packing): is_locally_valid_finite rejects candidate v   *)
(* at the next cell whenever an earlier cell at Manhattan distance d,      *)
(* 1 <= d <= v, already holds v.                                           *)
(***************************************************************************)
C9_IncrementalPacking ==
    (pc = "place" /\ Top.idx < TOTAL_CELLS) =>
        \A v \in 1 .. Top.max_col :
            (\E j \in 0 .. (Top.idx - 1) :
                grid[j] = v /\ 1 <= Manhattan(j, Top.idx) /\ Manhattan(j, Top.idx) <= v)
            => ~Accepts(grid, Top.idx, v)

(***************************************************************************)
(* C10 (verifier correctness): on a fully assigned grid of positive        *)
(* integers verify_finite_solution returns True iff rules 1-7 hold at      *)
(* every cell; in particular it returns False when two edges incident to   *)
(* one cell have the same weight.                                          *)
(***************************************************************************)
C10_VerifierCorrect ==
    verdict # "not_run" =>
        /\ (verdict = "pass") <=> (FullPacking(grid) /\ Rules2to7(grid))
        /\ ~IncidentEdgeUniqueness(grid) => verdict = "fail"

\* the verifier passed a relabelled 3 x 3 grid
C10_Witness == verdict = "pass" /\ GRID_SIZE = 3 /\ edits >= 1

(***************************************************************************)
(* C11 (special rule for 1s): a complete grid every cell of which was      *)
(* accepted by is_locally_valid_finite, in row-major order, has no two     *)
(* cells holding 1 within Manhattan distance 2 of each other.              *)
(***************************************************************************)
NoOnesWithinTwo(g) ==
    \A p \in Cells : \A q \in Cells \ {p} :
        (g[p] = 1 /\ g[q] = 1) => Manhattan(p, q) > 2

C11_SpecialRuleForOnes == PlacedAll => NoOnesWithinTwo(grid)

\* a complete accepted 3 x 3 grid that holds two 1s
C11_Witness ==
    /\ PlacedAll
    /\ GRID_SIZE = 3
    /\ \E p \in Cells : \E q \in Cells \ {p} : grid[p] = 1 /\ grid[q] = 1

(***************************************************************************)
(* C12 (decreasing sweep stopping rule): the budgets are attempted in      *)
(* strictly decreasing order, no budget is attempted after the first       *)
(* failing budget i, and the budget i + 1 then named as the last feasible  *)
(* one was attempted earlier and found feasible.                           *)
(***************************************************************************)
C12_DecreasingSweepStop ==
    /\ \A k \in 1 .. (Len(log) - 1) : log[k + 1].budget < log[k].budget
    /\ \A k \in 1 .. (Len(log) - 1) : log[k].result = "success"
    /\ previous # 0 =>
          \E k \in 1 .. Len(log) : log[k] = [budget |-> previous, result |-> "success"]

(***************************************************************************)
(* C15 (decreasing sweep range): when no attempt fails, the budgets        *)
(* attempted are all of MIN_COL_NUMBER .. MAX_MAX_COL_NUMBER, both ends    *)
(* included.                                                               *)
(***************************************************************************)
C15_DecreasingSweepRange ==
    (pc = "done" /\ solved) =>
        {log[k].budget : k \in 1 .. Len(log)} = MIN_COL_NUMBER .. MAX_MAX_COL_NUMBER

(***************************************************************************)
(* C13 (configuration errors): with a non-positive GRID_SIZE or a          *)
(* non-positive MAX_COL_NUMBER, solve_finite_grid makes no backtrack call  *)
(* and reports neither success nor infeasibility.                          *)
(***************************************************************************)
C13_ConfigurationRejected ==
    (GRID_SIZE <= 0 \/ MAX_COL_NUMBER <= 0) => (log = << >> /\ outcome = "none")

(***************************************************************************)
(* C14 (cylinder topology): get_var(r, c) resolves to the cell in row r    *)
(* and in the column of 0 .. width-1 congruent to c modulo width when      *)
(* 0 <= r < HEIGHT, negative columns and columns >= width included, and to *)
(* None exactly when r is outside 0 .. HEIGHT-1.                           *)
(***************************************************************************)
C14_CylinderTopology ==
    call.result # "not_called" =>
        /\ (0 <= call.r /\ call.r < HEIGHT) =>
              /\ call.result = "cell"
              /\ call.cell[1] = call.r
              /\ call.cell[2] \in 0 .. (width - 1)
              /\ \E q \in (-Abs(call.c) - 1) .. (Abs(call.c) + 1) :
                    call.c = q * width + call.cell[2]
        /\ (call.result = "None") <=> ~(0 <= call.r /\ call.r < HEIGHT)

\* a negative column and a column beyond twice the width, both wrapped
C14_Witness ==
    /\ call.result = "cell"
    /\ width >= 2
    /\ \/ call.c < 0 /\ call.cell[2] # 0
       \/ call.c >= 2 * width

(***************************************************************************)
(* C16 (failure restores the grid): whenever a call backtrack(grid, idx,   *)
(* k) returns False, the grid is the grid of the call's entry: every cell  *)
(* with index >= idx is 0 and every cell with index < idx holds the label  *)
(* it held at entry, the candidate of the caller that owns it.  The        *)
(* candidates of the callers do not change while a call is above them, so  *)
(* the grid they determine is the same at entry and at the return.         *)
(***************************************************************************)
\* the grid in which the callers' candidates fill the cells below idx
GridOfCallers(idx) == [i \in Cells |-> IF i < idx THEN stack[i + 1].val ELSE 0]

\* at the entry of the innermost call
EntryGrid == pc = "call" => grid = GridOfCallers(Top.idx)

\* when the call of index Len(stack) has just returned False
FailureGrid == (pc = "returned" /\ ~ret) => grid = GridOfCallers(Len(stack))

\* no step touches the frame of a call that has a call above it
CallersKeepCandidates ==
    \A j \in 1 .. (Len(stack) - 1) : j <= Len(stack') /\ stack'[j] = stack[j]

C16_FailureRestoresGrid ==
    /\ [](EntryGrid /\ FailureGrid)
    /\ [][CallersKeepCandidates]_vars

\* a call two levels down returned False: two labels kept, the rest 0
C16_Witness ==
    /\ pc = "returned"
    /\ ~ret
    /\ Len(stack) = 2
    /\ grid[0] # 0
    /\ grid[1] # 0
    /\ GRID_SIZE >= 2

(***************************************************************************)
(* C17 (first found is lexicographically least): when backtrack(grid, 0,   *)
(* k) returns True, every cell of the grid was accepted by                 *)
(* is_locally_valid_finite given the cells before it, and no complete      *)
(* labeling with values in 1..k accepted in the same way is smaller in the *)
(* lexicographic order of row-major sequences.                             *)
(***************************************************************************)
\* the cells of g before idx, the rest unassigned
Prefix(g, idx) == [i \in Cells |-> IF i < idx THEN g[i] ELSE 0]

\* g, assigned below idx, extends to a complete labeling accepted cell by cell
RECURSIVE Completable(_, _, _)
Completable(g, idx, k) ==
    IF idx = TOTAL_CELLS
    THEN TRUE
    ELSE \E v \in 1 .. k :
            /\ Accepts(g, idx, v)
            /\ Completable(WithCandidate(g, idx, v), idx + 1, k)

AcceptedCellByCell(g, k) ==
    \A idx \in Cells : g[idx] \in 1 .. k /\ Accepts(Prefix(g, idx), idx, g[idx])

\* an accepted complete labeling that agrees with g below idx and is smaller at idx
SmallerAccepted(g, k) ==
    \E idx \in Cells : \E v \in 1 .. (g[idx] - 1) :
        /\ Accepts(Prefix(g, idx), idx, v)
        /\ Completable(WithCandidate(Prefix(g, idx), idx, v), idx + 1, k)

C17_FirstFoundIsLexLeast ==
    (TopReturned /\ ret) =>
        /\ AcceptedCellByCell(grid, colNum)
        /\ ~SmallerAccepted(grid, colNum)

\* a 3 x 3 success where a larger accepted labeling exists as well
C17_Witness ==
    /\ TopReturned
    /\ ret
    /\ GRID_SIZE = 3
    /\ grid[0] = 1
    /\ Completable(WithCandidate(Zeros, 0, 2), 1, colNum)

(***************************************************************************)
(* C18 (termination): the search started by backtrack(grid, 0, k) on an    *)
(* all-zero grid eventually returns, either True with every cell assigned  *)
(* (idx = TOTAL_CELLS was reached) or False with the grid all zero again   *)
(* (index 0 exhausted the values 1..k).                                    *)
(***************************************************************************)
SearchStarted == pc = "call" /\ Len(stack) = 1 /\ grid = Zeros

TerminalSuccess == TopReturned /\ ret /\ \A i \in Cells : grid[i] \in 1 .. colNum

TerminalFailure == TopReturned /\ ~ret /\ grid = Zeros

C18_Termination == SearchStarted ~> (TerminalSuccess \/ TerminalFailure)

\* the search of a 3 x 3 grid ran through every value of index 0 and failed
C18_Witness == TerminalFailure /\ GRID_SIZE = 3 /\ colNum >= 5 /\ run = 1

====
